---- MODULE Spec2Model ----
(***************************************************************************)
(* A model of the loan eligibility engine and of the loan issuance view    *)
(* of the credit approval service (src/loans).                             *)
(*                                                                         *)
(* Units.  Money (DecimalField, 2 decimal places) is an integer number of  *)
(* cents.  Interest rates (DecimalField, 2 decimal places) are an integer  *)
(* number of hundredths of a percent: 10.5 % is 1050, 12 % is 1200.        *)
(* The credit score is a Python number that may be fractional; it is kept  *)
(* as an exact reduced fraction <<numerator, denominator>>.  The code      *)
(* computes the score and the installment in binary floating point; the    *)
(* model computes both exactly, which agrees with the code except where a  *)
(* float rounding error crosses a threshold or a half-cent boundary.       *)
(*                                                                         *)
(* Storage.  The views run in Django's default autocommit mode: every      *)
(* ORM call (get, exists, aggregate, count, create, save) is one database  *)
(* statement and one atomic step; nothing groups two of them.              *)
(***************************************************************************)
EXTENDS Integers, Sequences, FiniteSets, TLC

\* ------------------------------------------------------------------------
\* Arithmetic helpers
\* ------------------------------------------------------------------------

Max(a, b) == IF a >= b THEN a ELSE b

Min(a, b) == IF a <= b THEN a ELSE b

RECURSIVE GCD(_, _)
GCD(a, b) == IF b = 0 THEN a ELSE GCD(b, a % b)

\* Exact fractions <<n, d>>, d > 0, in lowest terms.
Frac(n, d) == LET g == GCD(n, d) IN <<n \div g, d \div g>>

FracInt(k) == <<k, 1>>

FracAdd(x, y) == Frac(x[1] * y[2] + y[1] * x[2], x[2] * y[2])

FracMulInt(x, k) == Frac(x[1] * k, x[2])

FracLE(x, y) == x[1] * y[2] <= y[1] * x[2]

FracLT(x, y) == x[1] * y[2] < y[1] * x[2]

FracMin(x, y) == IF FracLE(x, y) THEN x ELSE y

FracMax(x, y) == IF FracLE(x, y) THEN y ELSE x

\* Unbounded naturals for the amortization formula, whose powers do not fit a
\* machine integer: little-endian sequences of base-100 digits, no leading
\* zero digit, <<>> for 0.  Multipliers stay below 2 * 10^7.
RECURSIVE BigFromInt(_)
BigFromInt(n) == IF n = 0 THEN <<>> ELSE <<n % 100>> \o BigFromInt(n \div 100)

RECURSIVE BigMulCarry(_, _, _, _)
BigMulCarry(x, k, i, c) ==
    IF i > Len(x) THEN BigFromInt(c)
    ELSE LET t == x[i] * k + c
         IN  <<t % 100>> \o BigMulCarry(x, k, i + 1, t \div 100)

BigMulSmall(x, k) == IF k = 0 THEN <<>> ELSE BigMulCarry(x, k, 1, 0)

RECURSIVE BigAddCarry(_, _, _, _)
BigAddCarry(x, y, i, c) ==
    IF i > Len(x) /\ i > Len(y) THEN BigFromInt(c)
    ELSE LET t == (IF i <= Len(x) THEN x[i] ELSE 0)
                  + (IF i <= Len(y) THEN y[i] ELSE 0) + c
         IN  <<t % 100>> \o BigAddCarry(x, y, i + 1, t \div 100)

BigAdd(x, y) == BigAddCarry(x, y, 1, 0)

RECURSIVE BigTrim(_)
BigTrim(x) ==
    IF x = <<>> THEN x
    ELSE IF x[Len(x)] = 0 THEN BigTrim(SubSeq(x, 1, Len(x) - 1)) ELSE x

\* x - y for x >= y
RECURSIVE BigSubBorrow(_, _, _, _)
BigSubBorrow(x, y, i, b) ==
    IF i > Len(x) THEN <<>>
    ELSE LET t == x[i] - (IF i <= Len(y) THEN y[i] ELSE 0) - b
         IN  IF t < 0 THEN <<t + 100>> \o BigSubBorrow(x, y, i + 1, 1)
                      ELSE <<t>> \o BigSubBorrow(x, y, i + 1, 0)

BigSub(x, y) == BigTrim(BigSubBorrow(x, y, 1, 0))

RECURSIVE BigLEFrom(_, _, _)
BigLEFrom(x, y, i) ==
    IF i = 0 THEN TRUE
    ELSE IF x[i] # y[i] THEN x[i] < y[i]
    ELSE BigLEFrom(x, y, i - 1)

BigLE(x, y) ==
    IF Len(x) # Len(y) THEN Len(x) < Len(y) ELSE BigLEFrom(x, y, Len(x))

RECURSIVE BigPow(_, _)
BigPow(a, n) == IF n = 0 THEN <<1>> ELSE BigMulSmall(BigPow(a, n - 1), a)

\* The largest q in lo..hi with q * d <= n (d > 0, lo * d <= n).
RECURSIVE BigQuotient(_, _, _, _)
BigQuotient(n, d, lo, hi) ==
    IF lo >= hi THEN lo
    ELSE LET mid == (lo + hi + 1) \div 2
         IN  IF BigLE(BigMulSmall(d, mid), n)
             THEN BigQuotient(n, d, mid, hi)
             ELSE BigQuotient(n, d, lo, mid - 1)

\* ------------------------------------------------------------------------
\* Dates: records [y, m, d]
\* ------------------------------------------------------------------------

IsLeap(y) == (y % 4 = 0 /\ y % 100 # 0) \/ y % 400 = 0

DaysInMonth(y, m) ==
    IF m = 2 THEN (IF IsLeap(y) THEN 29 ELSE 28)
    ELSE IF m \in {4, 6, 9, 11} THEN 30 ELSE 31

DateLE(a, b) ==
    \/ a.y < b.y
    \/ a.y = b.y /\ a.m < b.m
    \/ a.y = b.y /\ a.m = b.m /\ a.d <= b.d

\* date + relativedelta(months=n): the day is clipped to the month's length
AddMonths(date, n) ==
    LET k  == date.y * 12 + (date.m - 1) + n
        yy == k \div 12
        mm == (k % 12) + 1
    IN  [y |-> yy, m |-> mm, d |-> Min(date.d, DaysInMonth(yy, mm))]

\* ------------------------------------------------------------------------
\* Pure functions of the engine
\* ------------------------------------------------------------------------

\* views.py / serializers.py: a response field that is None
None == -1

\* CustomerRegistrationSerializer.create: 36 * monthly_income rounded half-up
\* to the nearest lakh (100000.00 = 10^7 cents).
ApprovedLimit(monthly_income) ==
    ((2 * 36 * monthly_income + 10000000) \div (2 * 10000000)) * 10000000

\* LoanEligibilityService.calculate_monthly_installment, in cents, rounded
\* half-up.  With a = 120000 + rate and b = 120000 (1 + monthly_rate = a / b):
\*   emi = P * rate * a^n / (120000 * (a^n - b^n))
\* and round-half-up of N / D is floor((2N + D) / 2D).
calculate_monthly_installment(loan_amount, interest_rate, tenure) ==
    IF interest_rate = 0
    THEN (2 * loan_amount + tenure) \div (2 * tenure)
    ELSE LET A  == BigPow(120000 + interest_rate, tenure)
             B  == BigPow(120000, tenure)
             N  == BigMulSmall(BigMulSmall(A, loan_amount), interest_rate)
             D  == BigMulSmall(BigMulSmall(BigSub(A, B), 1200), 100)
             hi == loan_amount
                   + ((loan_amount \div 100) + 1) * ((interest_rate \div 1200) + 1)
         IN  BigQuotient(BigAdd(BigMulSmall(N, 2), D), BigMulSmall(D, 2), 0, hi)

\* mutant: the bands include their lower bound (>= instead of >)
get_corrected_interest_rate_Inclusive(credit_score, requested_rate) ==
    IF FracLE(FracInt(50), credit_score) THEN Max(requested_rate, 0)
    ELSE IF FracLE(FracInt(30), credit_score) THEN Max(requested_rate, 1200)
    ELSE IF FracLE(FracInt(10), credit_score) THEN Max(requested_rate, 1600)
    ELSE requested_rate

\* LoanEligibilityService.get_corrected_interest_rate
get_corrected_interest_rate(credit_score, requested_rate) ==
    IF FracLT(FracInt(50), credit_score) THEN Max(requested_rate, 0)
    ELSE IF FracLT(FracInt(30), credit_score) THEN Max(requested_rate, 1200)
    ELSE IF FracLT(FracInt(10), credit_score) THEN Max(requested_rate, 1600)
    ELSE requested_rate

\* mutant: neither the on-time component nor the total is clamped
total_score_Unclamped(total_loans, total_emis, total_paid_on_time, current_year_loans, total_approved_volume, approved_limit) ==
    LET on_time_ratio    == Frac(total_paid_on_time, Max(total_emis, 1))
        on_time_score    == FracMulInt(on_time_ratio, 40)
        loan_count_score == Max(0, 20 - (total_loans * 2))
        activity_score   == Min(20, current_year_loans * 5)
        volume_ratio     == FracMin(FracInt(1),
                                    Frac(total_approved_volume, approved_limit))
        volume_score     == FracMulInt(volume_ratio, 20)
    IN  FracAdd(FracAdd(on_time_score, FracInt(loan_count_score)),
                FracAdd(FracInt(activity_score), volume_score))

\* CreditScoreCalculator.calculate_credit_score, lines 48-74: the score from
\* the aggregates the queries returned (approved_limit # 0).
total_score(total_loans, total_emis, total_paid_on_time, current_year_loans, total_approved_volume, approved_limit) ==
    LET on_time_ratio    == Frac(total_paid_on_time, Max(total_emis, 1))
        on_time_score    == FracMin(FracInt(40), FracMulInt(on_time_ratio, 40))
        loan_count_score == Max(0, 20 - (total_loans * 2))
        activity_score   == Min(20, current_year_loans * 5)
        volume_ratio     == FracMin(FracInt(1),
                                    Frac(total_approved_volume, approved_limit))
        volume_score     == FracMulInt(volume_ratio, 20)
        total            == FracAdd(FracAdd(on_time_score, FracInt(loan_count_score)),
                                    FracAdd(FracInt(activity_score), volume_score))
    IN  FracMin(FracInt(100), FracMax(FracInt(0), total))

\* ------------------------------------------------------------------------
\* Bounds and inputs
\* ------------------------------------------------------------------------

\* concurrent requests (worker threads)
NumProcs == 2

\* customer rows deleted by the storage's owner while requests run
MaxDeletes == 1

Procs == 1 .. NumProcs

\* timezone.now().date()
Today == [y |-> 2024, m |-> 1, d |-> 31]

\* ids a request may name: 1 and 2 are registered, 3 never is
RequestIds == {1, 2, 3}

\* monthly_income of the registered customers, in cents
Salaries == {5000000, 1700000}

\* (loan_amount, interest_rate, tenure) of the requests
LoanRequests ==
    { [loan_amount |-> 10000000, interest_rate |-> 1050, tenure |-> 12],
      [loan_amount |-> 15000000, interest_rate |-> 1800, tenure |-> 12] }

\* Loan histories of customer 1 before the requests (ingest_loan_data rows):
\* none; an active loan whose EMI is above half of either salary; an active
\* loan above either approved limit; a closed loan paid on time; an active
\* loan that leaves 100000.00 of the larger approved limit.
Histories ==
    { {},
      { [loan_id |-> 1, customer_id |-> 1, loan_amount |-> 50000000,
         tenure |-> 24, interest_rate |-> 1200, monthly_repayment |-> 3000000,
         emis_paid_on_time |-> 12,
         start_date |-> [y |-> 2023, m |-> 6, d |-> 15],
         end_date |-> [y |-> 2025, m |-> 6, d |-> 15]] },
      { [loan_id |-> 1, customer_id |-> 1, loan_amount |-> 200000000,
         tenure |-> 60, interest_rate |-> 1200, monthly_repayment |-> 3000000,
         emis_paid_on_time |-> 60,
         start_date |-> [y |-> 2024, m |-> 1, d |-> 2],
         end_date |-> [y |-> 2029, m |-> 1, d |-> 2]] },
      { [loan_id |-> 1, customer_id |-> 1, loan_amount |-> 10000000,
         tenure |-> 12, interest_rate |-> 1050, monthly_repayment |-> 880000,
         emis_paid_on_time |-> 12,
         start_date |-> [y |-> 2022, m |-> 1, d |-> 1],
         end_date |-> [y |-> 2022, m |-> 12, d |-> 31]] },
      { [loan_id |-> 1, customer_id |-> 1, loan_amount |-> 170000000,
         tenure |-> 60, interest_rate |-> 1200, monthly_repayment |-> 100000,
         emis_paid_on_time |-> 12,
         start_date |-> [y |-> 2023, m |-> 1, d |-> 1],
         end_date |-> [y |-> 2028, m |-> 1, d |-> 1]] } }

\* The installments of the requests above at every rate the correction can
\* give them, computed once: calculate_monthly_installment is a pure function
\* and the amortization powers are costly to recompute in every state.
InstallmentTable ==
    { <<k, calculate_monthly_installment(k[1], k[2], k[3])>> :
        k \in UNION { { <<r.loan_amount, c, r.tenure>> :
                          c \in {r.interest_rate, 1200, 1600} } :
                        r \in LoanRequests } }

monthly_installment_of(loan_amount, interest_rate, tenure) ==
    LET k == <<loan_amount, interest_rate, tenure>>
    IN  IF \E t \in InstallmentTable : t[1] = k
        THEN (CHOOSE t \in InstallmentTable : t[1] = k)[2]
        ELSE calculate_monthly_installment(loan_amount, interest_rate, tenure)

\* ------------------------------------------------------------------------
\* State
\* ------------------------------------------------------------------------

VARIABLES
    customers,     \* table customer: customer_id -> row, over the stored ids
    loans,         \* table loan: a set of rows
    next_loan_id,  \* the AutoField sequence of loan.loan_id
    deletes,       \* customer rows deleted so far
    debt0,         \* history: current_debt of each customer in the initial state
    loans0,        \* history: the loan rows of the initial state
    pc,            \* where each request is
    view,          \* the view each request entered
    data,          \* serializer.validated_data of each request
    local,         \* the local variables of each request
    response       \* the Response each request returned

vars == <<customers, loans, next_loan_id, deletes, debt0, loans0, pc, view, data,
          local, response>>

NoCustomer == [customer_id |-> 0, monthly_salary |-> 0, approved_limit |-> 0,
               current_debt |-> 0]

NoResult == [approval |-> FALSE, message |-> "", interest_rate |-> 0,
             corrected_interest_rate |-> 0, monthly_installment |-> 0]

NoData == [customer_id |-> 0, loan_amount |-> 0, interest_rate |-> 0,
           tenure |-> 0]

NoLocal == [customer |-> NoCustomer, total_loans |-> 0, total_emis |-> 0,
            total_paid_on_time |-> 0, current_year_loans |-> 0,
            credit_score |-> <<0, 1>>, corrected_rate |-> 0,
            monthly_installment |-> 0, result |-> NoResult, loan_id |-> 0]

RECURSIVE SumField(_, _)
SumField(S, field) ==
    IF S = {} THEN 0
    ELSE LET r == CHOOSE r \in S : TRUE
         IN  r[field] + SumField(S \ {r}, field)

\* Loan.objects.filter(customer=customer)
customer_loans(c) == {l \in loans : l.customer_id = c}

\* Loan.objects.filter(customer=customer, end_date__gte=today)
current_loans(c) == {l \in customer_loans(c) : DateLE(Today, l.end_date)}

Init ==
    /\ \E s \in Salaries, h \in Histories :
         /\ customers =
              (1 :> [customer_id |-> 1, monthly_salary |-> s,
                     approved_limit |-> ApprovedLimit(s),
                     current_debt |-> SumField(h, "loan_amount")]
               @@
               2 :> [customer_id |-> 2, monthly_salary |-> 5000000,
                     approved_limit |-> ApprovedLimit(5000000),
                     current_debt |-> 0])
         /\ loans = h
         /\ next_loan_id = Cardinality(h) + 1
         /\ debt0 = (1 :> SumField(h, "loan_amount") @@ 2 :> 0)
         /\ loans0 = h
    /\ deletes = 0
    /\ pc = [p \in Procs |-> "idle"]
    /\ view = [p \in Procs |-> "none"]
    /\ data = [p \in Procs |-> NoData]
    /\ local = [p \in Procs |-> NoLocal]
    /\ response = [p \in Procs |-> [status |-> 0]]

\* ------------------------------------------------------------------------
\* Responses
\* ------------------------------------------------------------------------

\* check_eligibility view, lines 63-73
EligibilityResponse(d, result) ==
    [status |-> 200, customer_id |-> d.customer_id,
     approval |-> result.approval, interest_rate |-> result.interest_rate,
     corrected_interest_rate |-> result.corrected_interest_rate,
     tenure |-> d.tenure, monthly_installment |-> result.monthly_installment]

\* create_loan view, lines 100-109
RejectedResponse(d, result) ==
    [status |-> 200, loan_id |-> None, customer_id |-> d.customer_id,
     loan_approved |-> FALSE, message |-> result.message,
     monthly_installment |-> None]

\* create_loan view, lines 133-142
CreatedResponse(d, result, loan_id) ==
    [status |-> 201, loan_id |-> loan_id, customer_id |-> d.customer_id,
     loan_approved |-> TRUE, message |-> "Loan approved successfully",
     monthly_installment |-> result.monthly_installment]

\* create_loan view, lines 144-153
NotFoundResponse(d) ==
    [status |-> 404, loan_id |-> None, customer_id |-> d.customer_id,
     loan_approved |-> FALSE, message |-> "Customer not found",
     monthly_installment |-> None]

\* serializer.errors, HTTP 400
InvalidResponse == [status |-> 400]

\* an exception no handler catches: the framework answers HTTP 500
ServerError == [status |-> 500]

Finish(p, r) ==
    /\ pc' = [pc EXCEPT ![p] = "done"]
    /\ local' = [local EXCEPT ![p] = NoLocal]
    /\ response' = [response EXCEPT ![p] = r]

Goto(p, label, l) ==
    /\ pc' = [pc EXCEPT ![p] = label]
    /\ local' = [local EXCEPT ![p] = l]
    /\ UNCHANGED response

\* ------------------------------------------------------------------------
\* LoanEligibilityService.check_eligibility and its callers
\* ------------------------------------------------------------------------

\* check_eligibility returns `result` to the view that called it; the score
\* it was computed from is kept beside it as history.
Return(p, result) ==
    Goto(p, "returned", [NoLocal EXCEPT !.result = result,
                                        !.credit_score = local[p].credit_score])

ReturnScored(p, credit_score, result) ==
    Goto(p, "returned", [NoLocal EXCEPT !.result = result,
                                        !.credit_score = credit_score])

\* mutant: the not-found verdict reports no corrected rate
NotFoundResult_NoRate(d) ==
    [approval |-> FALSE, message |-> "Customer not found",
     interest_rate |-> d.interest_rate,
     corrected_interest_rate |-> 0,
     monthly_installment |-> 0]

\* check_eligibility, lines 117-126
NotFoundResult(d) ==
    [approval |-> FALSE, message |-> "Customer not found",
     interest_rate |-> d.interest_rate,
     corrected_interest_rate |-> d.interest_rate,
     monthly_installment |-> 0]

\* check_eligibility, lines 142-149
LowScoreResult(d, corrected_rate) ==
    [approval |-> FALSE, message |-> "Credit score too low for loan approval",
     interest_rate |-> d.interest_rate,
     corrected_interest_rate |-> corrected_rate,
     monthly_installment |-> 0]

\* mutant: the affordability rejection reports the installment it computed
EmiResult_KeepsInstallment(d, corrected_rate) ==
    [approval |-> FALSE,
     message |-> "Total EMI would exceed 50% of monthly salary",
     interest_rate |-> d.interest_rate,
     corrected_interest_rate |-> corrected_rate,
     monthly_installment |->
         monthly_installment_of(d.loan_amount, corrected_rate, d.tenure)]

\* check_eligibility, lines 164-171
EmiResult(d, corrected_rate) ==
    [approval |-> FALSE,
     message |-> "Total EMI would exceed 50% of monthly salary",
     interest_rate |-> d.interest_rate,
     corrected_interest_rate |-> corrected_rate,
     monthly_installment |-> 0]

\* mutant: a corrected rate equal to the band's floor is rejected (<= for <)
BandResult_StrictFloor(d, credit_score, corrected_rate, monthly_installment) ==
    LET verdict ==
          IF FracLT(FracInt(50), credit_score)
          THEN <<TRUE, "Loan approved">>
          ELSE IF FracLT(FracInt(30), credit_score)
          THEN IF corrected_rate <= 1200
               THEN <<FALSE, "Interest rate too low for credit score">>
               ELSE <<TRUE, "Loan approved with corrected interest rate">>
          ELSE IF FracLT(FracInt(10), credit_score)
          THEN IF corrected_rate <= 1600
               THEN <<FALSE, "Interest rate too low for credit score">>
               ELSE <<TRUE, "Loan approved with corrected interest rate">>
          ELSE <<FALSE, "Credit score too low for loan approval">>
    IN  [approval |-> verdict[1], message |-> verdict[2],
         interest_rate |-> d.interest_rate,
         corrected_interest_rate |-> corrected_rate,
         monthly_installment |-> IF verdict[1] THEN monthly_installment ELSE 0]

\* check_eligibility, lines 173-201
BandResult(d, credit_score, corrected_rate, monthly_installment) ==
    LET verdict ==
          IF FracLT(FracInt(50), credit_score)
          THEN <<TRUE, "Loan approved">>
          ELSE IF FracLT(FracInt(30), credit_score)
          THEN IF corrected_rate < 1200
               THEN <<FALSE, "Interest rate too low for credit score">>
               ELSE <<TRUE, "Loan approved with corrected interest rate">>
          ELSE IF FracLT(FracInt(10), credit_score)
          THEN IF corrected_rate < 1600
               THEN <<FALSE, "Interest rate too low for credit score">>
               ELSE <<TRUE, "Loan approved with corrected interest rate">>
          ELSE <<FALSE, "Credit score too low for loan approval">>
    IN  [approval |-> verdict[1], message |-> verdict[2],
         interest_rate |-> d.interest_rate,
         corrected_interest_rate |-> corrected_rate,
         monthly_installment |-> IF verdict[1] THEN monthly_installment ELSE 0]

\* mutant: the new installment alone is compared with half the salary
ExceedsHalfSalary_NewLoanOnly(current_emi_sum, monthly_installment, monthly_salary) ==
    2 * monthly_installment > monthly_salary

\* check_eligibility, lines 161-171: does the EMI total exceed half the salary
ExceedsHalfSalary(current_emi_sum, monthly_installment, monthly_salary) ==
    2 * (current_emi_sum + monthly_installment) > monthly_salary

\* calculate_credit_score returns credit_score to check_eligibility, which
\* derives the corrected rate and the installment and rejects a score <= 10
\* (lines 129-149).
ScoreReturn(p, credit_score) ==
    LET d == data[p]
        corrected_rate ==
            get_corrected_interest_rate(credit_score, d.interest_rate)
        monthly_installment ==
            monthly_installment_of(d.loan_amount, corrected_rate, d.tenure)
    IN  IF FracLE(credit_score, FracInt(10))
        THEN ReturnScored(p, credit_score, LowScoreResult(d, corrected_rate))
        ELSE Goto(p, "svc_active",
                  [NoLocal EXCEPT !.customer = local[p].customer,
                                  !.credit_score = credit_score,
                                  !.corrected_rate = corrected_rate,
                                  !.monthly_installment = monthly_installment])

db == <<customers, loans, next_loan_id, deletes, debt0, loans0>>

\* a client sends a request to one of the two views
Start(p) ==
    /\ pc[p] = "idle"
    /\ \E v \in {"check", "create"}, c \in RequestIds, r \in LoanRequests :
         /\ view' = [view EXCEPT ![p] = v]
         /\ data' = [data EXCEPT ![p] =
                        [customer_id |-> c, loan_amount |-> r.loan_amount,
                         interest_rate |-> r.interest_rate, tenure |-> r.tenure]]
    /\ pc' = [pc EXCEPT ![p] = "validate"]
    /\ UNCHANGED <<db, local, response>>

\* mutant: the serializer does not look the customer up
Validate_NoExistenceCheck(p) ==
    /\ pc[p] = "validate"
    /\ Goto(p, "svc_get", NoLocal)
    /\ UNCHANGED <<db, view, data>>

\* serializer.is_valid(): validate_customer_id
Validate(p) ==
    /\ pc[p] = "validate"
    /\ IF data[p].customer_id \in DOMAIN customers
       THEN Goto(p, "svc_get", NoLocal)
       ELSE Finish(p, InvalidResponse)
    /\ UNCHANGED <<db, view, data>>

\* check_eligibility: Customer.objects.get
SvcGet(p) ==
    /\ pc[p] = "svc_get"
    /\ IF data[p].customer_id \in DOMAIN customers
       THEN Goto(p, "cs_exists",
                 [NoLocal EXCEPT !.customer = customers[data[p].customer_id]])
       ELSE Return(p, NotFoundResult(data[p]))
    /\ UNCHANGED <<db, view, data>>

\* mutant: a customer without loans is scored 0
CsExists_DefaultZero(p) ==
    /\ pc[p] = "cs_exists"
    /\ IF customer_loans(local[p].customer.customer_id) = {}
       THEN ScoreReturn(p, FracInt(0))
       ELSE Goto(p, "cs_total", local[p])
    /\ UNCHANGED <<db, view, data>>

\* calculate_credit_score: customer_loans.exists()
CsExists(p) ==
    /\ pc[p] = "cs_exists"
    /\ IF customer_loans(local[p].customer.customer_id) = {}
       THEN ScoreReturn(p, FracInt(50))
       ELSE Goto(p, "cs_total", local[p])
    /\ UNCHANGED <<db, view, data>>

\* mutant: the total of the loan amounts is not compared with approved_limit
CsTotal_NoOverride(p) ==
    /\ pc[p] = "cs_total"
    /\ Goto(p, "cs_count", local[p])
    /\ UNCHANGED <<db, view, data>>

\* calculate_credit_score: Sum('loan_amount') against approved_limit
CsTotal(p) ==
    /\ pc[p] = "cs_total"
    /\ LET total_current_loans ==
             SumField(customer_loans(local[p].customer.customer_id), "loan_amount")
       IN  IF total_current_loans > local[p].customer.approved_limit
           THEN ScoreReturn(p, FracInt(0))
           ELSE Goto(p, "cs_count", local[p])
    /\ UNCHANGED <<db, view, data>>

\* calculate_credit_score: customer_loans.count()
CsCount(p) ==
    /\ pc[p] = "cs_count"
    /\ LET total_loans == Cardinality(customer_loans(local[p].customer.customer_id))
       IN  IF total_loans = 0
           THEN ScoreReturn(p, FracInt(50))
           ELSE Goto(p, "cs_emis", [local[p] EXCEPT !.total_loans = total_loans])
    /\ UNCHANGED <<db, view, data>>

\* calculate_credit_score: Sum('tenure')
CsEmis(p) ==
    /\ pc[p] = "cs_emis"
    /\ Goto(p, "cs_paid",
            [local[p] EXCEPT !.total_emis =
                SumField(customer_loans(local[p].customer.customer_id), "tenure")])
    /\ UNCHANGED <<db, view, data>>

\* calculate_credit_score: Sum('emis_paid_on_time')
CsPaid(p) ==
    /\ pc[p] = "cs_paid"
    /\ Goto(p, "cs_year",
            [local[p] EXCEPT !.total_paid_on_time =
                SumField(customer_loans(local[p].customer.customer_id),
                         "emis_paid_on_time")])
    /\ UNCHANGED <<db, view, data>>

\* calculate_credit_score: loans whose start_date is in the current year
CsYear(p) ==
    /\ pc[p] = "cs_year"
    /\ Goto(p, "cs_volume",
            [local[p] EXCEPT !.current_year_loans =
                Cardinality({l \in customer_loans(local[p].customer.customer_id) :
                                l.start_date.y = Today.y})])
    /\ UNCHANGED <<db, view, data>>

\* calculate_credit_score: Sum('loan_amount') again, then the score; the
\* division by approved_limit raises ZeroDivisionError when it is 0
CsVolume(p) ==
    /\ pc[p] = "cs_volume"
    /\ LET l == local[p]
           total_approved_volume ==
             SumField(customer_loans(l.customer.customer_id), "loan_amount")
       IN  IF l.customer.approved_limit = 0
           THEN Finish(p, ServerError)
           ELSE ScoreReturn(p, total_score(l.total_loans, l.total_emis,
                                           l.total_paid_on_time,
                                           l.current_year_loans,
                                           total_approved_volume,
                                           l.customer.approved_limit))
    /\ UNCHANGED <<db, view, data>>

\* mutant: the affordability check also stores the EMI total it computed as
\* the customer's current_debt
SvcActive_RefreshesDebt(p) ==
    /\ pc[p] = "svc_active"
    /\ LET l == local[p]
           c == l.customer.customer_id
           current_emi_sum == SumField(current_loans(c), "monthly_repayment")
       IN  /\ IF ExceedsHalfSalary(current_emi_sum, l.monthly_installment,
                                   l.customer.monthly_salary)
              THEN Return(p, EmiResult(data[p], l.corrected_rate))
              ELSE Return(p, BandResult(data[p], l.credit_score,
                                        l.corrected_rate, l.monthly_installment))
           /\ customers' =
                (c :> [l.customer EXCEPT !.current_debt = current_emi_sum])
                @@ customers
    /\ UNCHANGED <<loans, next_loan_id, deletes, debt0, loans0, view, data>>

\* check_eligibility: Sum('monthly_repayment') of the active loans, then the
\* affordability rule and the score bands
SvcActive(p) ==
    /\ pc[p] = "svc_active"
    /\ LET l == local[p]
           current_emi_sum ==
             SumField(current_loans(l.customer.customer_id), "monthly_repayment")
       IN  IF ExceedsHalfSalary(current_emi_sum, l.monthly_installment,
                                l.customer.monthly_salary)
           THEN Return(p, EmiResult(data[p], l.corrected_rate))
           ELSE Return(p, BandResult(data[p], l.credit_score, l.corrected_rate,
                                     l.monthly_installment))
    /\ UNCHANGED <<db, view, data>>

\* ------------------------------------------------------------------------
\* The views, once check_eligibility has returned
\* ------------------------------------------------------------------------

\* mutant: create_loan goes on to create the loan whatever the verdict
ViewResult_IgnoresApproval(p) ==
    /\ pc[p] = "returned"
    /\ IF view[p] = "check"
       THEN Finish(p, EligibilityResponse(data[p], local[p].result))
       ELSE Goto(p, "v_get", [NoLocal EXCEPT !.result = local[p].result])
    /\ UNCHANGED <<db, view, data>>

\* check_eligibility view (lines 63-73) answers the verdict; create_loan
\* (lines 100-109) answers a rejection, or goes on to create the loan
ViewResult(p) ==
    /\ pc[p] = "returned"
    /\ IF view[p] = "check"
       THEN Finish(p, EligibilityResponse(data[p], local[p].result))
       ELSE IF ~local[p].result.approval
            THEN Finish(p, RejectedResponse(data[p], local[p].result))
            ELSE Goto(p, "v_get", [NoLocal EXCEPT !.result = local[p].result])
    /\ UNCHANGED <<db, view, data>>


\* Customer.objects.get (line 113); DoesNotExist is answered 404
VGet(p) ==
    /\ pc[p] = "v_get"
    /\ IF data[p].customer_id \in DOMAIN customers
       THEN Goto(p, "v_create",
                 [local[p] EXCEPT !.customer = customers[data[p].customer_id]])
       ELSE Finish(p, NotFoundResponse(data[p]))
    /\ UNCHANGED <<db, view, data>>

\* the row Loan.objects.create inserts (lines 116-127)
NewLoan(p) ==
    [loan_id |-> next_loan_id, customer_id |-> local[p].customer.customer_id,
     loan_amount |-> data[p].loan_amount, tenure |-> data[p].tenure,
     interest_rate |-> local[p].result.corrected_interest_rate,
     monthly_repayment |-> local[p].result.monthly_installment,
     emis_paid_on_time |-> 0, start_date |-> Today,
     end_date |-> AddMonths(Today, data[p].tenure)]

\* Loan.objects.create (line 119): the INSERT; the foreign key to a customer
\* row that is gone raises IntegrityError, which no handler catches
VCreate(p) ==
    /\ pc[p] = "v_create"
    /\ IF local[p].customer.customer_id \in DOMAIN customers
       THEN /\ loans' = loans \cup {NewLoan(p)}
            /\ next_loan_id' = next_loan_id + 1
            /\ Goto(p, "v_save", [local[p] EXCEPT !.loan_id = next_loan_id])
       ELSE /\ Finish(p, ServerError)
            /\ UNCHANGED <<loans, next_loan_id>>
    /\ UNCHANGED <<customers, deletes, debt0, loans0, view, data>>

\* mutant: current_debt is assigned the loan amount (= instead of +=)
SavedCustomer_Overwrite(p) ==
    [local[p].customer EXCEPT !.current_debt = data[p].loan_amount]

\* the row customer.save() writes (lines 130-131): the instance fetched at
\* line 113 with loan_amount added to its current_debt
SavedCustomer(p) ==
    [local[p].customer EXCEPT
        !.current_debt = local[p].customer.current_debt + data[p].loan_amount]

\* customer.save() (line 131): UPDATE of every field by primary key, and an
\* INSERT of the instance when the UPDATE matches no row
VSave(p) ==
    /\ pc[p] = "v_save"
    /\ customers' = (local[p].customer.customer_id :> SavedCustomer(p)) @@ customers
    /\ Finish(p, CreatedResponse(data[p], local[p].result, local[p].loan_id))
    /\ UNCHANGED <<loans, next_loan_id, deletes, debt0, loans0, view, data>>

\* ------------------------------------------------------------------------
\* The storage's owner deletes a customer: Loan.customer is on_delete=CASCADE
\* ------------------------------------------------------------------------

DeleteCustomer(c) ==
    /\ deletes < MaxDeletes
    /\ c \in DOMAIN customers
    /\ customers' = [i \in DOMAIN customers \ {c} |-> customers[i]]
    /\ loans' = {l \in loans : l.customer_id # c}
    /\ deletes' = deletes + 1
    /\ UNCHANGED <<next_loan_id, debt0, loans0, pc, view, data, local, response>>

Step(p) ==
    \/ Start(p)
    \/ Validate(p)
    \/ SvcGet(p)
    \/ CsExists(p)
    \/ CsTotal(p)
    \/ CsCount(p)
    \/ CsEmis(p)
    \/ CsPaid(p)
    \/ CsYear(p)
    \/ CsVolume(p)
    \/ SvcActive(p)
    \/ ViewResult(p)
    \/ VGet(p)
    \/ VCreate(p)
    \/ VSave(p)

Next ==
    \/ \E p \in Procs : Step(p)
    \/ \E c \in DOMAIN customers : DeleteCustomer(c)

Spec == Init /\ [][Next]_vars

\* Requests handled one at a time: a request starts, and a customer is
\* deleted, only while no other request is in progress.
Quiet(p) == \A q \in Procs \ {p} : pc[q] \in {"idle", "done"}

NextSeq ==
    \/ \E p \in Procs : Quiet(p) /\ Step(p)
    \/ \E c \in DOMAIN customers :
         (\A q \in Procs : pc[q] \in {"idle", "done"}) /\ DeleteCustomer(c)

SpecSeq == Init /\ [][NextSeq]_vars
\* ------------------------------------------------------------------------
\* get_corrected_interest_rate on its own: request 1 holds a score and a
\* requested rate drawn from the sets below, and one step applies the function
\* ------------------------------------------------------------------------

\* scores 0, 0.5, 1, ... , 100
RateScores == {Frac(k, 2) : k \in 0 .. 200}

\* requested rates around the floors 12 % and 16 %
RequestedRates == {0, 1, 1050, 1199, 1200, 1201, 1599, 1600, 1601, 2000}

InitRate ==
    /\ customers = <<>>
    /\ loans = {}
    /\ next_loan_id = 1
    /\ deletes = 0
    /\ debt0 = <<>>
    /\ loans0 = {}
    /\ view = [p \in Procs |-> "none"]
    /\ response = [p \in Procs |-> [status |-> 0]]
    /\ pc = [p \in Procs |-> IF p = 1 THEN "rate_in" ELSE "idle"]
    /\ \E score \in RateScores, r \in RequestedRates :
         /\ data = [p \in Procs |->
                      IF p = 1 THEN [NoData EXCEPT !.interest_rate = r]
                      ELSE NoData]
         /\ local = [p \in Procs |->
                       IF p = 1 THEN [NoLocal EXCEPT !.credit_score = score]
                       ELSE NoLocal]

CorrectRate(p) ==
    /\ pc[p] = "rate_in"
    /\ Goto(p, "rate_out",
            [local[p] EXCEPT !.corrected_rate =
                get_corrected_interest_rate(local[p].credit_score,
                                            data[p].interest_rate)])
    /\ UNCHANGED <<db, view, data>>

NextRate == \E p \in Procs : CorrectRate(p)

SpecRate == InitRate /\ [][NextRate]_vars

\* ------------------------------------------------------------------------
\* calculate_credit_score on its own: request 1 has fetched customer 1 and
\* calls calculate_credit_score on it; the customer's row and loan history
\* are drawn from the sets below
\* ------------------------------------------------------------------------

\* loans in a history
MaxHistory == 12

\* (loan_amount, tenure, emis_paid_on_time, year of start_date) of a stored
\* loan: closed and paid in full; more EMIs paid on time than the tenure;
\* large and never paid on time; one month long and paid thirty times
ScoreShapes ==
    { [loan_amount |-> 10000000, tenure |-> 12, emis_paid_on_time |-> 12,
       year |-> 2022],
      [loan_amount |-> 50000000, tenure |-> 24, emis_paid_on_time |-> 30,
       year |-> 2024],
      [loan_amount |-> 150000000, tenure |-> 60, emis_paid_on_time |-> 0,
       year |-> 2023],
      [loan_amount |-> 10000000, tenure |-> 1, emis_paid_on_time |-> 30,
       year |-> 2024] }

\* approved_limit of the customer, in cents: 0 is what registration gives
\* a monthly_income below 1389
ScoreLimits == {0, 10000000, 60000000, 180000000}

\* current_debt of the customer, in cents
ScoreDebts == {0, 50000000}

\* a history of n loans: shape a at the odd loan_ids, shape b at the even
ScoreHistory(n, a, b) ==
    { LET sh    == IF i % 2 = 1 THEN a ELSE b
          start == [y |-> sh.year, m |-> 1, d |-> 1]
      IN  [loan_id |-> i, customer_id |-> 1, loan_amount |-> sh.loan_amount,
           tenure |-> sh.tenure, interest_rate |-> 1200,
           monthly_repayment |-> 100000,
           emis_paid_on_time |-> sh.emis_paid_on_time,
           start_date |-> start, end_date |-> AddMonths(start, sh.tenure)]
      : i \in 1 .. n }

InitScore ==
    /\ \E n \in 0 .. MaxHistory, a \in ScoreShapes, b \in ScoreShapes,
          lim \in ScoreLimits, s \in Salaries, debt \in ScoreDebts :
         LET customer == [customer_id |-> 1, monthly_salary |-> s,
                          approved_limit |-> lim, current_debt |-> debt]
             h == ScoreHistory(n, a, b)
         IN  /\ customers = (1 :> customer)
             /\ loans = h
             /\ next_loan_id = n + 1
             /\ debt0 = (1 :> debt)
             /\ loans0 = h
             /\ local = [p \in Procs |->
                           IF p = 1 THEN [NoLocal EXCEPT !.customer = customer]
                           ELSE NoLocal]
    /\ deletes = 0
    /\ pc = [p \in Procs |-> IF p = 1 THEN "cs_exists" ELSE "idle"]
    /\ view = [p \in Procs |-> IF p = 1 THEN "check" ELSE "none"]
    /\ data = [p \in Procs |->
                 IF p = 1
                 THEN [customer_id |-> 1, loan_amount |-> 10000000,
                       interest_rate |-> 1050, tenure |-> 12]
                 ELSE NoData]
    /\ response = [p \in Procs |-> [status |-> 0]]

NextScore ==
    \E p \in Procs :
        \/ CsExists(p)
        \/ CsTotal(p)
        \/ CsCount(p)
        \/ CsEmis(p)
        \/ CsPaid(p)
        \/ CsYear(p)
        \/ CsVolume(p)

SpecScore == InitScore /\ [][NextScore]_vars

\* ------------------------------------------------------------------------
\* Claims
\* ------------------------------------------------------------------------

Issued(p) ==
    pc[p] = "done" /\ view[p] = "create" /\ response[p].status = 201

\* the loans create_loan inserted for customer c that are stored
IssuedLoans(c) == {l \in loans \ loans0 : l.customer_id = c}

\* C1: when two create_loan requests for the same customer are both approved
\* and both have completed (no customer was deleted meanwhile), the customer's
\* current_debt is its value before the two requests plus both loan amounts.
C1_NoLostUpdate ==
    \A p, q \in Procs :
        ( /\ p # q
          /\ Issued(p)
          /\ Issued(q)
          /\ data[p].customer_id = data[q].customer_id
          /\ deletes = 0 )
        => customers[data[p].customer_id].current_debt
             = debt0[data[p].customer_id]
               + data[p].loan_amount + data[q].loan_amount

\* C2: in every state, a customer's current_debt includes the loan_amount of
\* exactly the stored loans that create_loan inserted for that customer: no
\* loan is stored without its debt, no debt is counted without its loan.
C2_LoanIffDebt ==
    \A c \in DOMAIN customers :
        customers[c].current_debt
          = debt0[c] + SumField(IssuedLoans(c), "loan_amount")

\* C3: a step of create_loan taken after the approved verdict and before the
\* loan is created, when the customer row is gone, ends the request with the
\* 'Customer not found' outcome and writes nothing.
C3_DeletedCustomerIsNotFound ==
    [][ \A p \in Procs :
          ( /\ pc[p] \in {"v_get", "v_create"}
            /\ pc'[p] # pc[p]
            /\ data[p].customer_id \notin DOMAIN customers )
          => ( /\ pc'[p] = "done"
               /\ response'[p].status = 404
               /\ response'[p].message = "Customer not found"
               /\ response'[p].loan_approved = FALSE
               /\ response'[p].loan_id = None
               /\ loans' = loans
               /\ customers' = customers ) ]_vars

RECURSIVE SumAmounts(_)
SumAmounts(S) ==
    IF S = {} THEN 0
    ELSE LET p == CHOOSE p \in S : TRUE
         IN  data[p].loan_amount + SumAmounts(S \ {p})

\* C4: with requests handled one at a time, whenever no request for customer
\* c is in progress, c's current_debt is its initial value plus the
\* loan_amount of every approved create_loan for c, and the loans inserted
\* for c are exactly one per approved request, with that request's amount
\* and the loan_id it was answered: each approved issuance added exactly
\* loan_amount and exactly one loan, and touched no other customer.
C4_SequentialIssuance ==
    \A c \in DOMAIN customers :
        LET approved == {p \in Procs : Issued(p) /\ data[p].customer_id = c}
            running  == {p \in Procs : /\ pc[p] \notin {"idle", "done"}
                                       /\ data[p].customer_id = c}
        IN  running = {} =>
              /\ customers[c].current_debt = debt0[c] + SumAmounts(approved)
              /\ Cardinality(IssuedLoans(c)) = Cardinality(approved)
              /\ \A p \in approved :
                    \E l \in IssuedLoans(c) :
                        /\ l.loan_id = response[p].loan_id
                        /\ l.loan_amount = data[p].loan_amount

C4_Witness ==
    \E p \in Procs : Issued(p) /\ data[p].customer_id \in DOMAIN customers

\* C5: a create_loan whose verdict is not approved answers loan_id None,
\* loan_approved False and the verdict's message, and that step writes
\* nothing; a request is past the verdict only with an approved one, and
\* every stored loan that create_loan inserted belongs to such a request.
C5_RejectionWritesNothing ==
    /\ [][ \A p \in Procs :
             ( /\ pc[p] = "returned"
               /\ view[p] = "create"
               /\ ~local[p].result.approval
               /\ pc'[p] # pc[p] )
             => ( /\ pc'[p] = "done"
                  /\ response'[p].loan_id = None
                  /\ response'[p].loan_approved = FALSE
                  /\ response'[p].message = local[p].result.message
                  /\ customers' = customers
                  /\ loans' = loans ) ]_vars
    /\ [] ( /\ \A p \in Procs :
                 pc[p] \in {"v_get", "v_create", "v_save"}
                 => local[p].result.approval
            /\ \A l \in loans \ loans0 :
                 \E p \in Procs :
                     /\ view[p] = "create"
                     /\ \/ /\ pc[p] = "v_save"
                           /\ local[p].loan_id = l.loan_id
                           /\ local[p].result.approval
                        \/ /\ Issued(p)
                           /\ response[p].loan_id = l.loan_id )

C5_Witness ==
    \E p \in Procs :
        /\ pc[p] = "done"
        /\ view[p] = "create"
        /\ response[p].status = 200
        /\ response[p].message = "Total EMI would exceed 50% of monthly salary"

ServiceLabels ==
    {"svc_get", "cs_exists", "cs_total", "cs_count", "cs_emis", "cs_paid",
     "cs_year", "cs_volume", "svc_active"}

\* C6: no step of check_eligibility changes a stored customer or loan; and
\* two calls with the same inputs that both ran against the initial, never
\* changed storage return the same verdict.
C6_EligibilityIsReadOnly ==
    /\ [][ \A p \in Procs :
             (pc[p] \in ServiceLabels /\ pc'[p] # pc[p])
             => (customers' = customers /\ loans' = loans) ]_vars
    /\ [] ( \A p, q \in Procs :
              ( /\ pc[p] = "returned"
                /\ pc[q] = "returned"
                /\ data[p] = data[q]
                /\ loans = loans0
                /\ deletes = 0 )
              => local[p].result = local[q].result )

C6_Witness ==
    \E p, q \in Procs :
        /\ p # q
        /\ pc[p] = "returned"
        /\ pc[q] = "returned"
        /\ data[p] = data[q]
        /\ loans = loans0
        /\ loans # {}
        /\ deletes = 0
        /\ local[p].result.approval

\* the customer's loans that were active in the initial state already had
\* monthly repayments above half the salary, and nothing was deleted since
HadExcessEmi(c) ==
    /\ deletes = 0
    /\ c \in DOMAIN customers
    /\ 2 * SumField({l \in loans0 : l.customer_id = c /\ DateLE(Today, l.end_date)},
                    "monthly_repayment")
         > customers[c].monthly_salary

\* C7 as stated: for a customer whose active loans already have monthly
\* repayments above 50% of the salary, check_eligibility rejects every
\* request with 'Total EMI would exceed 50% of monthly salary' and
\* installment 0.
C7_ExcessEmiRejected ==
    \A p \in Procs :
        (pc[p] = "returned" /\ HadExcessEmi(data[p].customer_id))
        => ( /\ ~local[p].result.approval
             /\ local[p].result.message
                  = "Total EMI would exceed 50% of monthly salary"
             /\ local[p].result.monthly_installment = 0 )

\* C7 amended: the same, for the requests whose credit score is above 10; a
\* score of 10 or less is rejected first, with 'Credit score too low for loan
\* approval' and installment 0.
C7_ExcessEmiRejectedAboveScore10 ==
    \A p \in Procs :
        (pc[p] = "returned" /\ HadExcessEmi(data[p].customer_id))
        => /\ ~local[p].result.approval
           /\ local[p].result.monthly_installment = 0
           /\ local[p].result.message
                = IF local[p].credit_score[1] > 10 * local[p].credit_score[2]
                  THEN "Total EMI would exceed 50% of monthly salary"
                  ELSE "Credit score too low for loan approval"

C7_Witness ==
    \E p \in Procs :
        /\ pc[p] = "returned"
        /\ HadExcessEmi(data[p].customer_id)
        /\ local[p].credit_score[1] > 10 * local[p].credit_score[2]
        /\ local[p].result.message
             = "Total EMI would exceed 50% of monthly salary"

\* the request 100000 / 10.5 % / 12 months, answered for a customer that has
\* never had a loan
FreshCustomerRequest(p) ==
    /\ pc[p] = "returned"
    /\ data[p].loan_amount = 10000000
    /\ data[p].interest_rate = 1050
    /\ data[p].tenure = 12
    /\ deletes = 0
    /\ customer_loans(data[p].customer_id) = {}

\* C8 as stated: for any existing customer with no loan history that request
\* yields score 50, corrected rate 12 and an approved verdict with the
\* message 'Loan approved with corrected interest rate'.
C8_FreshCustomerApproved ==
    \A p \in Procs :
        FreshCustomerRequest(p)
        => /\ local[p].credit_score = <<50, 1>>
           /\ local[p].result.corrected_interest_rate = 1200
           /\ local[p].result.approval
           /\ local[p].result.message
                = "Loan approved with corrected interest rate"

\* C8 amended: that request yields score 50 and corrected rate 12; it is
\* approved with that message and installment 8884.88 when 8884.88 is at most
\* 50% of the monthly salary, and rejected with 'Total EMI would exceed 50%
\* of monthly salary' otherwise.
C8_FreshCustomerApprovedIfAffordable ==
    \A p \in Procs :
        FreshCustomerRequest(p)
        => /\ local[p].credit_score = <<50, 1>>
           /\ local[p].result.corrected_interest_rate = 1200
           /\ local[p].result.interest_rate = 1050
           /\ IF 2 * 888488 <= customers[data[p].customer_id].monthly_salary
              THEN /\ local[p].result.approval
                   /\ local[p].result.message
                        = "Loan approved with corrected interest rate"
                   /\ local[p].result.monthly_installment = 888488
              ELSE /\ ~local[p].result.approval
                   /\ local[p].result.message
                        = "Total EMI would exceed 50% of monthly salary"
                   /\ local[p].result.monthly_installment = 0

C8_Witness ==
    \E p \in Procs :
        /\ FreshCustomerRequest(p)
        /\ customers[data[p].customer_id].monthly_salary = 5000000
        /\ local[p].result.approval

\* C9: check_eligibility looking up a customer id that is not stored returns
\* (it does not raise) the verdict approval False, 'Customer not found',
\* installment 0, with both rates equal to the requested rate.
C9_UnknownCustomerVerdict ==
    [][ \A p \in Procs :
          ( /\ pc[p] = "svc_get"
            /\ pc'[p] # pc[p]
            /\ data[p].customer_id \notin DOMAIN customers )
          => ( /\ pc'[p] = "returned"
               /\ local'[p].result.approval = FALSE
               /\ local'[p].result.message = "Customer not found"
               /\ local'[p].result.monthly_installment = 0
               /\ local'[p].result.interest_rate = data[p].interest_rate
               /\ local'[p].result.corrected_interest_rate
                    = data[p].interest_rate
               /\ response'[p] = response[p] ) ]_vars

C9_Witness ==
    \E p \in Procs :
        /\ pc[p] = "returned"
        /\ data[p].customer_id \notin DOMAIN customers
        /\ local[p].result.message = "Customer not found"

\* C10: for every score in 0..100 and every requested rate r >= 0 the
\* corrected rate is max(r, 0) above 50, max(r, 12) above 30 up to 50,
\* max(r, 16) above 10 up to 30, and r up to 10; in particular a score of
\* exactly 50 gets the floor 12, exactly 30 the floor 16, exactly 10 none;
\* and the result is never below r.
C10_CorrectedRateBands ==
    \A p \in Procs :
        pc[p] = "rate_out" =>
          LET n   == local[p].credit_score[1]
              d   == local[p].credit_score[2]
              r   == data[p].interest_rate
              out == local[p].corrected_rate
          IN  /\ n > 50 * d => out = Max(r, 0)
              /\ (n > 30 * d /\ n <= 50 * d) => out = Max(r, 1200)
              /\ (n > 10 * d /\ n <= 30 * d) => out = Max(r, 1600)
              /\ n <= 10 * d => out = r
              /\ (n = 50 /\ d = 1 /\ r < 1200) => out = 1200
              /\ (n = 30 /\ d = 1 /\ r < 1600) => out = 1600
              /\ (n = 10 /\ d = 1) => out = r
              /\ out >= r

C10_Witness ==
    \E p \in Procs :
        /\ pc[p] = "rate_out"
        /\ local[p].credit_score = <<50, 1>>
        /\ data[p].interest_rate = 1050
        /\ local[p].corrected_rate = 1200

\* calculate_credit_score has returned to check_eligibility: the score is in
\* local[p].credit_score
Scored(p) == pc[p] \in {"svc_active", "returned"}

\* C11: for every customer row and every loan history, calculate_credit_score
\* returns, and the score it returns is at least 0 and at most 100.
C11_ScoreInRange ==
    \A p \in Procs :
        /\ response[p] # ServerError
        /\ Scored(p) =>
             /\ FracLE(FracInt(0), local[p].credit_score)
             /\ FracLE(local[p].credit_score, FracInt(100))

\* a history with more EMIs paid on time than its tenures add up to was
\* scored by the formula (the score is neither default nor the override)
C11_Witness ==
    /\ Scored(1)
    /\ SumField(customer_loans(1), "emis_paid_on_time")
         > SumField(customer_loans(1), "tenure")
    /\ Cardinality(customer_loans(1)) > 10
    /\ FracLT(FracInt(50), local[1].credit_score)

\* C12: when the loan amounts of the customer add up to more than
\* approved_limit, the score is exactly 0, whatever the loans are.
C12_OverLimitScoresZero ==
    \A p \in Procs :
        (/\ Scored(p)
         /\ data[p].customer_id \in DOMAIN customers
         /\ SumField(customer_loans(data[p].customer_id), "loan_amount")
              > customers[data[p].customer_id].approved_limit)
        => local[p].credit_score = FracInt(0)

\* an over-limit history with on-time payments and loans of this year was
\* scored
C12_Witness ==
    /\ Scored(1)
    /\ SumField(customer_loans(1), "loan_amount") > customers[1].approved_limit
    /\ customers[1].approved_limit > 0
    /\ SumField(customer_loans(1), "emis_paid_on_time") > 0
    /\ \E l \in customer_loans(1) : l.start_date.y = Today.y
    /\ local[1].credit_score = FracInt(0)

\* C13: a customer without loans is scored exactly 50, whatever the salary,
\* approved_limit and current_debt of the row.
C13_NoLoansScoresFifty ==
    \A p \in Procs :
        (/\ Scored(p)
         /\ customer_loans(data[p].customer_id) = {})
        => local[p].credit_score = FracInt(50)

\* a customer without loans, with approved_limit 0 and a current_debt, was
\* scored
C13_Witness ==
    /\ Scored(1)
    /\ customer_loans(1) = {}
    /\ customers[1].approved_limit = 0
    /\ customers[1].current_debt > 0
    /\ local[1].credit_score = FracInt(50)

\* request p leaves input validation in this step
Validates(p) == pc[p] = "validate" /\ pc'[p] # "validate"

\* request p answers in this step
Answers(p) == pc[p] # "done" /\ pc'[p] = "done"

\* validation of a check-eligibility request: a customer_id that is not
\* stored is answered 400 at once, and no verdict is computed; any other
\* goes on to the service without an answer
CheckValidation(p) ==
    (view[p] = "check" /\ Validates(p)) =>
        IF data[p].customer_id \in DOMAIN customers
        THEN pc'[p] = "svc_get" /\ response'[p] = response[p]
        ELSE /\ pc'[p] = "done"
             /\ response'[p] = InvalidResponse
             /\ local'[p].result = NoResult

\* C14 as stated: a check-eligibility request for a customer_id that is not
\* stored is answered 400 by validation without a verdict, and a request
\* that answers 200 with a verdict is for a customer that is stored.
C14_VerdictOnlyForStoredCustomer ==
    [][\A p \in Procs :
          /\ CheckValidation(p)
          /\ (view[p] = "check" /\ Answers(p) /\ response'[p].status = 200)
               => data[p].customer_id \in DOMAIN customers]_vars

\* C14, amended: as above, but the customer of a 200 answer is one that was
\* stored when the request was validated; it may have been deleted since.
C14_VerdictOnlyForValidatedCustomer ==
    [][\A p \in Procs :
          /\ CheckValidation(p)
          /\ (view[p] = "check" /\ Answers(p) /\ response'[p].status = 200)
               => \/ data[p].customer_id \in DOMAIN customers
                  \/ (data[p].customer_id \in DOMAIN debt0 /\ deletes > 0)]_vars

\* one check-eligibility request for an id never stored was answered 400,
\* and another was answered 200 for a customer deleted after its validation
C14_Witness ==
    \E p \in Procs, q \in Procs :
        /\ pc[p] = "done" /\ view[p] = "check"
        /\ data[p].customer_id \notin DOMAIN debt0
        /\ response[p] = InvalidResponse
        /\ pc[q] = "done" /\ view[q] = "check"
        /\ data[q].customer_id \notin DOMAIN customers
        /\ response[q].status = 200

\* check_eligibility returns to the view in this step
Returns(p) == pc[p] # "returned" /\ pc'[p] = "returned"

\* C15: check_eligibility approves exactly when its lookup found the
\* customer, the score is above 10, and the repayments of the customer's
\* active loans plus the installment at the corrected rate are at most half
\* the salary; it never answers 'Interest rate too low for credit score';
\* the installment of a rejection is 0.
C15_ApprovalRule ==
    [][\A p \in Procs :
          Returns(p) =>
            LET d      == data[p]
                r      == local'[p].result
                score  == local'[p].credit_score
                found  == local[p].customer.customer_id = d.customer_id
                corrected_rate ==
                    get_corrected_interest_rate(score, d.interest_rate)
                installment ==
                    monthly_installment_of(d.loan_amount, corrected_rate, d.tenure)
                active == SumField(current_loans(d.customer_id), "monthly_repayment")
            IN  /\ r.approval <=>
                     /\ found
                     /\ FracLT(FracInt(10), score)
                     /\ 2 * (active + installment)
                          <= local[p].customer.monthly_salary
                /\ r.message # "Interest rate too low for credit score"
                /\ ~r.approval => r.monthly_installment = 0
                /\ r.approval =>
                     /\ r.monthly_installment = installment
                     /\ r.corrected_interest_rate = corrected_rate]_vars

\* one request was approved at a rate raised to the floor of its band, one
\* was rejected by the affordability rule
C15_Witness ==
    \E p \in Procs, q \in Procs :
        /\ pc[p] = "returned"
        /\ local[p].result.approval
        /\ local[p].result.corrected_interest_rate > data[p].interest_rate
        /\ pc[q] = "returned"
        /\ local[q].result.message
             = "Total EMI would exceed 50% of monthly salary"

\* the repayments of the loans in S that are active today, against half of
\* monthly_salary
WithinHalfSalary(S, monthly_salary) ==
    2 * SumField({l \in S : DateLE(Today, l.end_date)}, "monthly_repayment")
        <= monthly_salary

\* C16: a customer whose active loans repaid at most half the salary per
\* month before the requests still has active loans repaying at most half
\* the salary, however the create_loan requests for it interleave.
C16_EmiCapKept ==
    \A c \in DOMAIN customers :
        WithinHalfSalary({l \in loans0 : l.customer_id = c},
                         customers[c].monthly_salary)
        => WithinHalfSalary(customer_loans(c), customers[c].monthly_salary)

\* the loan amounts of customer c add up to more than its approved_limit
Overextended(c) ==
    /\ c \in DOMAIN customers
    /\ SumField(customer_loans(c), "loan_amount") > customers[c].approved_limit

\* C17: once the loan amounts of a customer exceed approved_limit, a score
\* computed for it is rejected with 'Credit score too low for loan
\* approval', and (unless the customer is deleted) its loans never change
\* again and its current_debt changes only by the save that completes the
\* issuance of a loan already stored.
C17_OverextensionAbsorbing ==
    [][\A c \in DOMAIN customers :
          (Overextended(c) /\ deletes' = deletes) =>
            /\ customer_loans(c)' = customer_loans(c)
            /\ customers'[c].current_debt # customers[c].current_debt
                 => \E p \in Procs : /\ pc[p] = "v_save"
                                     /\ pc'[p] = "done"
                                     /\ local[p].customer.customer_id = c
            /\ \A p \in Procs :
                 (/\ pc[p] = "cs_total"
                  /\ pc'[p] # "cs_total"
                  /\ local[p].customer.customer_id = c)
                 => /\ pc'[p] = "returned"
                    /\ local'[p].result
                         = LowScoreResult(data[p], data[p].interest_rate)]_vars

====
